---- MODULE Spec2Model ----
(***************************************************************************)
(* Model of scraper.py: the field normalisers (parsear_precio,             *)
(* parsear_stock, parsear_valoracion), the page extractor                  *)
(* (scrapear_pagina), the crawl loop (obtener_todos_los_productos) and the *)
(* entry point with its three exports.                                     *)
(*                                                                         *)
(* Texts that the code parses (price text, availability text) are          *)
(* sequences of one-character strings, so that replace/strip/float/regex   *)
(* are computed character by character.  Optional values (Python None)     *)
(* are sequences of length 0 or 1: <<>> is None, <<x>> is the value x.     *)
(* URLs of catalogue pages are page numbers; 0 is the None cursor.         *)
(***************************************************************************)
EXTENDS Integers, Sequences, FiniteSets, TLC

VARIABLES
    catalogo,           \* the site: page number -> [articulos, next]
    url_actual,         \* the crawl cursor (line 188), 0 when None
    productos_totales,  \* the accumulator (line 187)
    pc,                 \* position of the process
    traza,              \* network calls and sleeps made so far, in order
    archivos,           \* the three export targets
    entrada,            \* argument of the function under call
    salida              \* its return value

vars == <<catalogo, url_actual, productos_totales, pc, traza, archivos, entrada, salida>>

(***************************************************************************)
(* Bounds                                                                  *)
(***************************************************************************)
NumPaginas == 2      \* pages of the site
MaxArticulos == 3    \* product nodes on a page handed to scrapear_pagina
MaxTexto == 3        \* characters of a price text handed to parsear_precio
MaxClases == 3       \* class markers handed to parsear_valoracion

None == <<>>
Some(x) == <<x>>
NoUrl == 0

(***************************************************************************)
(* Constants of the program                                                *)
(***************************************************************************)
URL_INICIAL == 1

ClavesValoracion == {"One", "Two", "Three", "Four", "Five"}

MAPA_VALORACIONES ==
    [c \in ClavesValoracion |->
        CASE c = "One" -> 1 [] c = "Two" -> 2 [] c = "Three" -> 3
          [] c = "Four" -> 4 [] c = "Five" -> 5]

(***************************************************************************)
(* Character helpers                                                       *)
(***************************************************************************)
Espacios == {" ", "\n", "\t"}

Digitos == {"0", "1", "2", "3", "4", "5", "6", "7", "8", "9"}

ValorDigito(c) ==
    CASE c = "0" -> 0 [] c = "1" -> 1 [] c = "2" -> 2 [] c = "3" -> 3
      [] c = "4" -> 4 [] c = "5" -> 5 [] c = "6" -> 6 [] c = "7" -> 7
      [] c = "8" -> 8 [] c = "9" -> 9

\* str.replace(c, ""): every occurrence of c is removed
Replace(s, c) == SelectSeq(s, LAMBDA x : x # c)

RECURSIVE LStrip(_)
LStrip(s) ==
    IF s # <<>> /\ Head(s) \in Espacios THEN LStrip(Tail(s)) ELSE s

RECURSIVE RStrip(_)
RStrip(s) ==
    IF s # <<>> /\ s[Len(s)] \in Espacios
        THEN RStrip(SubSeq(s, 1, Len(s) - 1))
        ELSE s

\* str.strip()
Strip(s) == RStrip(LStrip(s))

\* int() of a run of decimal digits
RECURSIVE EnteroDe(_)
EnteroDe(ds) ==
    IF ds = <<>> THEN 0
    ELSE 10 * EnteroDe(SubSeq(ds, 1, Len(ds) - 1)) + ValorDigito(ds[Len(ds)])

EsDigitos(s) == \A i \in 1..Len(s) : s[i] \in Digitos

(***************************************************************************)
(* float(): the value of a text, or ValueError.  A finite value is         *)
(* num / 10^exp with trailing zeros of the fraction removed, so that equal *)
(* numbers have equal representations ("5", "5.", "5.0" and "05").         *)
(* Covered: surrounding whitespace, sign, digits with an optional point,   *)
(* and the words nan, inf, infinity (lower case).  Texts with an exponent  *)
(* or underscores are not drawn by the specifications below.               *)
(***************************************************************************)
ValueError == [clase |-> "ValueError", num |-> 0, exp |-> 0]
NaN == [clase |-> "nan", num |-> 0, exp |-> 0]
Inf(signo) == [clase |-> "inf", num |-> signo, exp |-> 0]

RECURSIVE Normalizar(_, _)
Normalizar(num, exp) ==
    IF exp > 0 /\ num % 10 = 0
        THEN Normalizar(num \div 10, exp - 1)
        ELSE [clase |-> "finito", num |-> num, exp |-> exp]

PosPunto(s) ==
    IF \E i \in 1..Len(s) : s[i] = "."
        THEN CHOOSE i \in 1..Len(s) : s[i] = "." /\ \A j \in 1..(i - 1) : s[j] # "."
        ELSE 0

\* the unsigned part: digits, digits., .digits, digits.digits
Magnitud(s, signo) ==
    LET p == PosPunto(s)
        ent == IF p = 0 THEN s ELSE SubSeq(s, 1, p - 1)
        fra == IF p = 0 THEN <<>> ELSE SubSeq(s, p + 1, Len(s))
    IN  IF EsDigitos(ent) /\ EsDigitos(fra) /\ Len(ent) + Len(fra) > 0
            THEN Normalizar(signo * EnteroDe(ent \o fra), Len(fra))
            ELSE ValueError

Float(texto) ==
    LET s == Strip(texto)
        signo == IF s # <<>> /\ Head(s) = "-" THEN -1 ELSE 1
        r == IF s # <<>> /\ Head(s) \in {"-", "+"} THEN Tail(s) ELSE s
    IN  IF r = <<"n", "a", "n">> THEN NaN
        ELSE IF r \in {<<"i", "n", "f">>, <<"i", "n", "f", "i", "n", "i", "t", "y">>}
            THEN Inf(signo)
        ELSE Magnitud(r, signo)

\* Python's  x >= 0  on a float (False for nan)
NoNegativo(x) ==
    \/ x.clase = "finito" /\ x.num >= 0
    \/ x.clase = "inf" /\ x.num > 0

(***************************************************************************)
(* Field normalisers                                                       *)
(***************************************************************************)
\* float(texto_precio.replace("£", "").strip()); ValueError propagates
parsear_precio(texto_precio) == Float(Strip(Replace(texto_precio, "£")))

\* re.search(r"(\d+)", texto_stock): the first maximal run of digits
parsear_stock(texto_stock) ==
    IF \E i \in 1..Len(texto_stock) : texto_stock[i] \in Digitos
        THEN LET ini == CHOOSE i \in 1..Len(texto_stock) :
                            /\ texto_stock[i] \in Digitos
                            /\ \A j \in 1..(i - 1) : texto_stock[j] \notin Digitos
                 fin == CHOOSE k \in ini..Len(texto_stock) :
                            /\ \A j \in ini..k : texto_stock[j] \in Digitos
                            /\ (k = Len(texto_stock) \/ texto_stock[k + 1] \notin Digitos)
             IN  Some(EnteroDe(SubSeq(texto_stock, ini, fin)))
        ELSE None

\* mutant: the last recognised marker wins
RECURSIVE BuscarClaseUltima(_, _)
BuscarClaseUltima(clases, i) ==
    IF i > Len(clases) THEN None
    ELSE LET resto == BuscarClaseUltima(clases, i + 1)
         IN  IF resto # None THEN resto
             ELSE IF clases[i] \in DOMAIN MAPA_VALORACIONES
                THEN Some(MAPA_VALORACIONES[clases[i]])
                ELSE None

\* the for loop of parsear_valoracion over clases[i..]
RECURSIVE BuscarClase(_, _)
BuscarClase(clases, i) ==
    IF i > Len(clases) THEN None
    ELSE IF clases[i] \in DOMAIN MAPA_VALORACIONES
        THEN Some(MAPA_VALORACIONES[clases[i]])
        ELSE BuscarClase(clases, i + 1)

\* etiqueta_html is None (no element: .get raises, caught) or Some(clases)
parsear_valoracion(etiqueta_html) ==
    IF etiqueta_html = None
        THEN None
        ELSE BuscarClase(etiqueta_html[1], 1)

(***************************************************************************)
(* Page extractor                                                          *)
(*                                                                         *)
(* A product node (article.product_pod) is                                 *)
(*   h3           "ok", or why articulo.h3.a["title"] raises: "None" (no   *)
(*                h3), "sin_a" (no anchor), "sin_title" (no attribute)     *)
(*   title        the title attribute when h3 = "ok"                       *)
(*   price_color  None or Some(text of the .price_color element)           *)
(*   star_rating  None or Some(class list of the .star-rating element)     *)
(*   availability None or Some(text of the .availability element)          *)
(* A document is [articulos |-> sequence of nodes, next |-> page number    *)
(* the "li.next a" href leads to, 0 when there is no such anchor].         *)
(***************************************************************************)
Excepcion == [error |-> TRUE, producto |-> <<>>]
Producido(p) == [error |-> FALSE, producto |-> p]

\* the body of the try block, lines 143-169: the dict appended, or the
\* exception raised by the first step that fails
ExtraerProducto(articulo) ==
    IF articulo.h3 # "ok" THEN Excepcion
    ELSE IF articulo.price_color = None THEN Excepcion
    ELSE IF parsear_precio(articulo.price_color[1]) = ValueError THEN Excepcion
    ELSE IF articulo.availability = None THEN Excepcion
    ELSE LET texto_stock == Strip(articulo.availability[1])
         IN  Producido([titulo |-> articulo.title,
                        precio |-> parsear_precio(articulo.price_color[1]),
                        valoracion |-> parsear_valoracion(articulo.star_rating),
                        cantidad_stock |-> parsear_stock(texto_stock),
                        texto_stock |-> texto_stock])

\* mutant: the except clause leaves the loop instead of going on
RECURSIVE BucleArticulosAborta(_, _, _)
BucleArticulosAborta(articulos, i, productos) ==
    IF i > Len(articulos) THEN productos
    ELSE LET r == ExtraerProducto(articulos[i])
         IN  IF r.error
                THEN productos
                ELSE BucleArticulosAborta(articulos, i + 1, Append(productos, r.producto))

\* for articulo in articulos: try ... except Exception: logging.warning
RECURSIVE BucleArticulos(_, _, _)
BucleArticulos(articulos, i, productos) ==
    IF i > Len(articulos) THEN productos
    ELSE LET r == ExtraerProducto(articulos[i])
         IN  IF r.error
                THEN BucleArticulos(articulos, i + 1, productos)
                ELSE BucleArticulos(articulos, i + 1, Append(productos, r.producto))

\* scrapear_pagina after its call of obtener_soup: soup is None or Some(doc)
scrapear_pagina(soup) ==
    IF soup = None THEN <<>>
    ELSE BucleArticulos(soup[1].articulos, 1, <<>>)

(***************************************************************************)
(* Inputs                                                                  *)
(***************************************************************************)
RECURSIVE SeqsHasta(_, _)
SeqsHasta(S, n) ==
    IF n = 0 THEN {<<>>}
    ELSE LET menores == SeqsHasta(S, n - 1)
         IN  menores \cup {Append(s, x) : s \in {t \in menores : Len(t) = n - 1}, x \in S}

TextoEnStock == <<"I", "n", " ", "s", "t", "o", "c", "k", " ", "(", "5", " ",
                  "a", "v", "a", "i", "l", "a", "b", "l", "e", ")">>
TextoAgotado == <<"\n", " ", "O", "u", "t", " ", "o", "f", " ", "s", "t", "o", "c", "k", "\n">>

ArticuloA ==
    [h3 |-> "ok", title |-> "A",
     price_color |-> Some(<<"£", "1", "0", ".", "0", "0">>),
     star_rating |-> Some(<<"star-rating", "Three">>),
     availability |-> Some(TextoEnStock)]

ArticuloB ==
    [h3 |-> "ok", title |-> "B",
     price_color |-> Some(<<"£", "5", ".", "0", "0">>),
     star_rating |-> None,
     availability |-> Some(TextoAgotado)]

ArticuloConTitulo(h3, title) == [ArticuloA EXCEPT !.h3 = h3, !.title = title]
ArticuloConPrecio(price_color) == [ArticuloA EXCEPT !.price_color = price_color]

ArticuloSinPrecioNumerico == ArticuloConPrecio(Some(<<"£", "x">>))
ArticuloPrecioNegativo == ArticuloConPrecio(Some(<<"£", "-", "5", ".", "0", "0">>))
ArticuloTituloVacio == ArticuloConTitulo("ok", "")

\* the node kinds pages are built from
Articulos ==
    {ArticuloA, ArticuloB,
     ArticuloConTitulo("sin_title", ""), ArticuloConTitulo("sin_a", ""),
     ArticuloConPrecio(None), ArticuloSinPrecioNumerico,
     [ArticuloB EXCEPT !.availability = None],
     ArticuloPrecioNegativo, ArticuloTituloVacio}

AlfabetoPrecio == {"£", " ", "-", "5", ".", "x", "n", "a"}
TextosPrecio == SeqsHasta(AlfabetoPrecio, MaxTexto)

Marcadores == {"star-rating", "One", "Two", "Three", "Four", "Five", "one", "Six"}

Documento(articulos, next) == [articulos |-> articulos, next |-> next]

\* documents handed to scrapear_pagina: every page of up to MaxArticulos
\* nodes, and every one-node page whose price text is any text
DocumentosPagina ==
    {Documento(a, 0) : a \in SeqsHasta(Articulos, MaxArticulos)}
        \cup {Documento(<<ArticuloConPrecio(Some(t))>>, 0) : t \in TextosPrecio}

(***************************************************************************)
(* Calls of one function: the argument is drawn, the function is applied   *)
(***************************************************************************)
SinRastreo ==
    /\ catalogo = <<>>
    /\ url_actual = NoUrl
    /\ productos_totales = <<>>
    /\ traza = <<>>
    /\ archivos = <<>>

InitPagina ==
    /\ SinRastreo
    /\ pc = "llamada"
    /\ entrada \in {None} \cup {Some(d) : d \in DocumentosPagina}
    /\ salida = <<>>

LlamarScrapearPagina ==
    /\ pc = "llamada"
    /\ salida' = scrapear_pagina(entrada)
    /\ pc' = "retorno"
    /\ UNCHANGED <<catalogo, url_actual, productos_totales, traza, archivos, entrada>>

SpecPagina == InitPagina /\ [][LlamarScrapearPagina]_vars

InitValoracion ==
    /\ SinRastreo
    /\ pc = "llamada"
    /\ entrada \in {None} \cup {Some(c) : c \in SeqsHasta(Marcadores, MaxClases)}
    /\ salida = <<>>

LlamarParsearValoracion ==
    /\ pc = "llamada"
    /\ salida' = parsear_valoracion(entrada)
    /\ pc' = "retorno"
    /\ UNCHANGED <<catalogo, url_actual, productos_totales, traza, archivos, entrada>>

SpecValoracion == InitValoracion /\ [][LlamarParsearValoracion]_vars

(***************************************************************************)
(* The crawl and the entry point                                           *)
(*                                                                         *)
(* pc: "while" (line 190), "siguiente" (line 196, after the page's records *)
(* were appended), "guardar_csv", "guardar_json", "guardar_sqlite" (lines  *)
(* 272-274), "completado" (line 276), "IndexError" (the process ended with *)
(* the uncaught exception of line 218).                                    *)
(*                                                                         *)
(* traza records what the process does on the network and the clock:       *)
(* every requests.get, with the function that made it and whether it       *)
(* succeeded, and every time.sleep.                                        *)
(***************************************************************************)
MaxVisitas == NumPaginas + 1

\* pages the site is built from
PaginasSitio ==
    {<<>>, <<ArticuloA, ArticuloB>>, <<ArticuloB>>, <<ArticuloSinPrecioNumerico>>}

Get(url, ok, por) == [tipo |-> "get", url |-> url, ok |-> ok, por |-> por]
Sleep == [tipo |-> "sleep", url |-> NoUrl, ok |-> TRUE, por |-> "obtener_todos_los_productos"]

\* obtener_soup: the document, or None when requests raises
obtener_soup(url, ok) == IF ok THEN Some(catalogo[url]) ELSE None

\* mutant: the page's records are put in front of the accumulator
ExtendAlFrente(lista, otros) == otros \o lista

\* list.extend
Extend(lista, otros) == lista \o otros

\* mutant: a page whose fetch failed is fetched again
SiguienteUrlReintenta(soup, url) ==
    IF soup = None THEN url
    ELSE IF soup[1].next # 0 THEN soup[1].next
    ELSE NoUrl

\* lines 199-204: the next cursor; the href "page-n.html" appended to
\* URL_BASE + "catalogue/" is the URL of page n
SiguienteUrl(soup, url) ==
    IF soup # None /\ soup[1].next # 0
        THEN soup[1].next
        ELSE NoUrl

Visitas == Cardinality({i \in 1..Len(traza) :
                            traza[i].tipo = "get" /\ traza[i].por = "scrapear_pagina"})

Init ==
    /\ catalogo \in [1..NumPaginas ->
                        {Documento(a, n) : a \in PaginasSitio, n \in 0..NumPaginas}]
    /\ url_actual = URL_INICIAL
    /\ productos_totales = <<>>
    /\ pc = "while"
    /\ traza = <<>>
    /\ archivos = [csv |-> None, json |-> None, db |-> None]
    /\ entrada = <<>>
    /\ salida = <<>>

\* lines 190-194: the loop test, scrapear_pagina (with its own fetch), extend
ScrapearPagina ==
    /\ pc = "while"
    /\ url_actual # NoUrl
    /\ Visitas < MaxVisitas
    /\ \E ok \in BOOLEAN :
        /\ productos_totales' =
                Extend(productos_totales, scrapear_pagina(obtener_soup(url_actual, ok)))
        /\ traza' = Append(traza, Get(url_actual, ok, "scrapear_pagina"))
    /\ pc' = "siguiente"
    /\ UNCHANGED <<catalogo, url_actual, archivos, entrada, salida>>

\* lines 196-204: the second fetch of the page, the next link, the sleep
BuscarSiguiente ==
    /\ pc = "siguiente"
    /\ \E ok \in BOOLEAN :
        LET soup == obtener_soup(url_actual, ok)
            get == Get(url_actual, ok, "obtener_todos_los_productos")
        IN  /\ url_actual' = SiguienteUrl(soup, url_actual)
            /\ traza' = IF soup # None /\ soup[1].next # 0
                            THEN traza \o <<get, Sleep>>
                            ELSE Append(traza, get)
    /\ pc' = "while"
    /\ UNCHANGED <<catalogo, productos_totales, archivos, entrada, salida>>

\* lines 190, 206, 271: the loop ends, the list is returned to the entry point
Retornar ==
    /\ pc = "while"
    /\ url_actual = NoUrl
    /\ pc' = "guardar_csv"
    /\ UNCHANGED <<catalogo, url_actual, productos_totales, traza, archivos, entrada, salida>>

Claves == <<"titulo", "precio", "valoracion", "cantidad_stock", "texto_stock">>

Fila(p) == <<p.titulo, p.precio, p.valoracion, p.cantidad_stock, p.texto_stock>>

Filas(datos) == [i \in 1..Len(datos) |-> Fila(datos[i])]

\* guardar_csv: open(..., "w") creates the file; datos[0] raises IndexError
\* on an empty list, which nothing catches
GuardarCsv ==
    /\ pc = "guardar_csv"
    /\ IF productos_totales = <<>>
        THEN /\ archivos' = [archivos EXCEPT !.csv = Some(<<>>)]
             /\ pc' = "IndexError"
        ELSE /\ archivos' = [archivos EXCEPT
                                !.csv = Some(<<Claves>> \o Filas(productos_totales))]
             /\ pc' = "guardar_json"
    /\ UNCHANGED <<catalogo, url_actual, productos_totales, traza, entrada, salida>>

\* guardar_json
GuardarJson ==
    /\ pc = "guardar_json"
    /\ archivos' = [archivos EXCEPT !.json = Some(productos_totales)]
    /\ pc' = "guardar_sqlite"
    /\ UNCHANGED <<catalogo, url_actual, productos_totales, traza, entrada, salida>>

\* guardar_sqlite: the table is created if absent, the rows are appended
GuardarSqlite ==
    /\ pc = "guardar_sqlite"
    /\ archivos' = [archivos EXCEPT
                        !.db = Some((IF archivos.db = None THEN <<>> ELSE archivos.db[1])
                                        \o Filas(productos_totales))]
    /\ pc' = "completado"
    /\ UNCHANGED <<catalogo, url_actual, productos_totales, traza, entrada, salida>>

Next ==
    \/ ScrapearPagina
    \/ BuscarSiguiente
    \/ Retornar
    \/ GuardarCsv
    \/ GuardarJson
    \/ GuardarSqlite

Spec == Init /\ [][Next]_vars

\* every call returns: the process is never suspended for ever
SpecJusto == Spec /\ WF_vars(Next)

(***************************************************************************)
(* Properties                                                              *)
(***************************************************************************)
\* what a node lacks for a record: title anchor or attribute, price or
\* availability element, or a price text that float() rejects
Malformado(a) ==
    \/ a.h3 # "ok"
    \/ a.price_color = None
    \/ a.availability = None
    \/ (a.price_color # None /\ parsear_precio(a.price_color[1]) = ValueError)

\* the records of the well-formed nodes, in node order
RegistrosEsperados(articulos) ==
    LET buenos == SelectSeq(articulos, LAMBDA a : ~Malformado(a))
    IN  [i \in 1..Len(buenos) |-> ExtraerProducto(buenos[i]).producto]

GetsDe(por) == SelectSeq(traza, LAMBDA e : e.tipo = "get" /\ e.por = por)
GetsPagina == GetsDe("scrapear_pagina")
GetsBucle == GetsDe("obtener_todos_los_productos")

\* the records of the first n visits, page after page
RECURSIVE RegistrosDeVisitas(_, _)
RegistrosDeVisitas(gets, n) ==
    IF n = 0 THEN <<>>
    ELSE RegistrosDeVisitas(gets, n - 1)
            \o RegistrosEsperados(catalogo[gets[n].url].articulos)

EnRastreo == pc \in {"while", "siguiente"}

\* a fetch of visit v failed
FalloEn(v) ==
    \/ ~GetsPagina[v].ok
    \/ (v <= Len(GetsBucle) /\ ~GetsBucle[v].ok)

VisitasFallidas == {v \in 1..Len(GetsPagina) : FalloEn(v)}

PrimerFallo == CHOOSE k \in VisitasFallidas : \A v \in VisitasFallidas : k <= v

\* C1: when the fetch of page k > 1 fails after pages 1..k-1 were fetched,
\* the crawl returns exactly the records of pages 1..k-1, in order, and
\* visits no page after k.
C1_FalloDevuelvePrefijo ==
    (~EnRastreo /\ VisitasFallidas # {} /\ PrimerFallo > 1) =>
        /\ productos_totales = RegistrosDeVisitas(GetsPagina, PrimerFallo - 1)
        /\ Len(GetsPagina) = PrimerFallo
        /\ url_actual = NoUrl

\* C2: the entry point always ends having written the three exports,
\* whatever list the crawl returned, the empty list included.
C2_ExportaSiempre ==
    (pc \in {"completado", "IndexError"}) =>
        /\ pc = "completado"
        /\ archivos.csv # None
        /\ archivos.json # None
        /\ archivos.db # None

UnSoloMalformado(articulos) ==
    Cardinality({i \in 1..Len(articulos) : Malformado(articulos[i])}) = 1

RegistrosDelGet(e) ==
    IF e.ok THEN RegistrosEsperados(catalogo[e.url].articulos) ELSE <<>>

RECURSIVE Acumulado(_, _)
Acumulado(gets, n) ==
    IF n = 0 THEN <<>> ELSE Acumulado(gets, n - 1) \o RegistrosDelGet(gets[n])

\* C4: at every step the accumulator is the concatenation, in visit order,
\* of the record sequences scrapear_pagina produced for the pages visited so
\* far, each in the node order of its page.
C4_OrdenPaginaNodo ==
    productos_totales = Acumulado(GetsPagina, Len(GetsPagina))

C4_Testigo ==
    /\ pc = "guardar_csv"
    /\ Len(GetsPagina) = 2
    /\ GetsPagina[1].ok
    /\ GetsPagina[2].ok
    /\ catalogo[GetsPagina[1].url].articulos = <<ArticuloA, ArticuloB>>
    /\ catalogo[GetsPagina[2].url].articulos = <<ArticuloB>>
    /\ Len(productos_totales) = 3

RECURSIVE Alcanza(_, _)
Alcanza(p, n) ==
    IF p = 0 THEN TRUE
    ELSE IF n = 0 THEN FALSE
    ELSE Alcanza(catalogo[p].next, n - 1)

\* the chain of next links from the start URL ends at a page without one
CadenaFinita == Alcanza(URL_INICIAL, NumPaginas)

UltimoGet == traza[Len(traza)]

\* C5: when the chain of next links is finite the loop ends and the
\* function returns; the cursor becomes None only in the step that looked
\* for the next link and found none or could not fetch the page; and once
\* it is None nothing is fetched or appended any more.
C5_Terminacion ==
    /\ CadenaFinita => <>(~EnRastreo)
    /\ [][(url_actual # NoUrl /\ url_actual' = NoUrl) =>
            /\ pc = "siguiente"
            /\ UltimoGet' = Get(url_actual, UltimoGet'.ok, "obtener_todos_los_productos")
            /\ (~UltimoGet'.ok \/ catalogo[url_actual].next = 0)]_vars
    /\ [][url_actual = NoUrl =>
            /\ url_actual' = NoUrl
            /\ traza' = traza
            /\ productos_totales' = productos_totales]_vars

C5_Testigo ==
    /\ pc = "guardar_csv"
    /\ url_actual = NoUrl
    /\ Len(GetsPagina) = 2
    /\ VisitasFallidas = {}
    /\ catalogo[GetsPagina[2].url].next = 0

\* C6: every record appended has a non-empty title.
C6_TituloNoVacio ==
    pc = "retorno" => \A i \in 1..Len(salida) : salida[i].titulo # ""

\* C7: every record appended has a price >= 0, whatever the price text.
C7_PrecioNoNegativo ==
    pc = "retorno" => \A i \in 1..Len(salida) : NoNegativo(salida[i].precio)

Reconocidas(clases) == {i \in 1..Len(clases) : clases[i] \in ClavesValoracion}

PrimeraReconocida(clases) ==
    CHOOSE i \in Reconocidas(clases) : \A j \in Reconocidas(clases) : i <= j

\* C8: parsear_valoracion returns None when the element is missing or no
\* marker is one of One..Five, the value of the first recognised word in
\* marker order otherwise, and never anything outside None, 1..5.
C8_Valoracion ==
    pc = "retorno" =>
        /\ entrada = None => salida = None
        /\ (entrada # None /\ Reconocidas(entrada[1]) = {}) => salida = None
        /\ (entrada # None /\ Reconocidas(entrada[1]) # {}) =>
                salida = Some(MAPA_VALORACIONES[entrada[1][PrimeraReconocida(entrada[1])]])
        /\ salida \in {None} \cup {Some(n) : n \in 1..5}

C8_Testigo ==
    /\ pc = "retorno"
    /\ entrada = Some(<<"star-rating", "Four", "Two">>)
    /\ salida = Some(4)

\* C9: after a fetch fails no further fetch is made, neither of the same
\* URL nor of a later page, and the cursor becomes None.
C9_FalloTermina ==
    /\ \A i \in 1..Len(traza) : \A j \in (i + 1)..Len(traza) :
            (traza[i].tipo = "get" /\ ~traza[i].ok) => traza[j].tipo # "get"
    /\ (pc = "while" /\ traza # <<>> /\ ~UltimoGet.ok) => url_actual = NoUrl

\* C10: between any two consecutive fetches the delay is slept.
C10_PausaEntreFetches ==
    \A i \in 1..(Len(traza) - 1) :
        ~(traza[i].tipo = "get" /\ traza[i + 1].tipo = "get")

====
